---- MODULE Spec2Model ----
(***************************************************************************)
(* Carryon backend: the booking lifecycle and the wallet, coupon, referral *)
(* and rating side effects of its HTTP handlers (Express + Prisma).        *)
(*                                                                         *)
(* The store (Prisma tables) is the shared state.  Every handler is an     *)
(* async function: each `await prisma...` is one atomic step against the   *)
(* store, a `prisma.$transaction` is one atomic step as a whole, and other *)
(* requests may run between two steps of one handler.  The synchronous     *)
(* code before the first await (input validation) belongs to the first     *)
(* step.  Money is counted in sen (1/100 RM), so RM 5.00 is 500.           *)
(***************************************************************************)
EXTENDS Integers, FiniteSets, Sequences, Bags, TLC

\* ------------------------------------------------------------------ bounds
\* Requests accepted in one behaviour (an HTTP server accepts any number).
MaxRequests == 3
\* Requests accepted in one behaviour of a specification of one group of handlers.
MaxLedgerRequests == 4
MaxPromoRequests == 4
MaxBookingRequests == 3
MaxRefundRequests == 4
MaxCouponRequests == 2
MaxStatusRequests == 3
MaxRatingRequests == 3
MaxInvoiceRequests == 3
MaxPayRequests == 3
MaxEtaRequests == 3
MaxUpdateRequests == 2
MaxAccessRequests == 2
MaxOrderRequests == 3
MaxDiscountRequests == 3

\* --------------------------------------------------------- program constants
rewardAmount == 500
MaxTopUp == 100000

\* ------------------------------------------------------------------ universe
Users == {"u1", "u2"}
Bookings == {"b1", "b2"}
Drivers == {"d1"}
Procs == {"p1", "p2"}
NULL == "null"

\* users.referralCode (unique per user); "RX" is a code nobody owns
ReferralCodeOf(u) == IF u = "u1" THEN "R1" ELSE "R2"
ReferralCodes == {"R1", "R2", "RX"}

BookingStatus ==
    {"PENDING", "SEARCHING_DRIVER", "DRIVER_ASSIGNED", "DRIVER_ARRIVED",
     "PICKUP_DONE", "IN_TRANSIT", "DELIVERED", "CANCELLED"}
PaymentMethod == {"CASH", "UPI", "CARD", "WALLET"}
PaymentStatus == {"PENDING", "COMPLETED", "FAILED", "REFUNDED"}

VARIABLES
    booking,     \* Booking table: [Bookings -> record]
    wallet,      \* Wallet table, keyed by its unique userId: [Users -> [exists, balance]]
    txns,        \* WalletTransaction table: a bag of [walletId, type, amount, referenceId]
    coupon,      \* Coupon table, keyed by its unique code
    userCoupon,  \* UserCoupon table, keyed by (userId, couponId)
    referral,    \* Referral table: a bag of [referrerId, refereeId, status, rewardAmount]
    order,       \* Order table, keyed by its unique bookingId
    driver,      \* Driver table
    invoice,     \* Invoice table, keyed by bookingId
    req,         \* the handler each request slot runs, its position and its locals
    budget       \* requests the server still accepts in this behaviour

store == <<booking, wallet, txns, coupon, userCoupon, referral, order, driver, invoice>>
vars == <<booking, wallet, txns, coupon, userCoupon, referral, order, driver, invoice, req, budget>>

\* ------------------------------------------------------------------ helpers
RECURSIVE SumOver(_, _)
\* the sum of the amounts of the ledger entries in S, each counted with its copies
SumOver(S, bag) ==
    IF S = {} THEN 0
    ELSE LET r == CHOOSE x \in S : TRUE
         IN r.amount * bag[r] + SumOver(S \ {r}, bag)

\* sum(transactions.amount) of wallet w
LedgerSum(w) == SumOver({r \in DOMAIN txns : r.walletId = w}, txns)

\* walletTransaction.create / referral.create: one more row
Insert(bag, row) == bag (+) SetToBag({row})

\* number of rows of a table among the rows S, each counted with its copies
CountRows(bag, S) == BagCardinality([r \in S \cap DOMAIN bag |-> bag[r]])

Txn(w, type, amount, ref) ==
    [walletId |-> w, type |-> type, amount |-> amount, referenceId |-> ref]

\* wallet.upsert({create: {balance: amount}, update: {balance: {increment: amount}}})
WalletUpsert(w, amount) ==
    IF w.exists THEN [w EXCEPT !.balance = @ + amount]
    ELSE [exists |-> TRUE, balance |-> amount]

\* booking.eta of a booking that has none (null)
NoEta == -1

\* a Booking row as POST /api/bookings creates it.  estimatedPrice is the number
\* the client sent, unchecked: its whole sen are in estimatedPrice and what it has
\* below one sen is in mills (tenths of a sen); finalPrice, a difference of
\* estimatedPrice and a discount in whole sen, has the same part below one sen.
NewBooking(u, price, method, drv) ==
    [userId |-> u, estimatedPrice |-> price, discountAmount |-> 0, finalPrice |-> 0,
     status |-> "PENDING", paymentMethod |-> method, paymentStatus |-> "PENDING",
     driverId |-> drv, otp |-> "1234", promoCode |-> NULL, deliveredAt |-> FALSE,
     eta |-> NoEta, duration |-> 0, mills |-> 0]

NoBooking == NewBooking(NULL, 0, "CASH", NULL)

\* ------------------------------------------------------------------ requests
\* A request slot: op and pc say which handler runs and which await comes next;
\* user is req.user.userId; bookingId, code, amount, status and rating are the
\* inputs; bk (the booking as read), seen (the coupon's usedCount as read) and amt
\* (the amount computed) are the handler's locals; result is the response and
\* final the finalPrice it reports.
\* late is history, read by no handler: whether the caller's UserCoupon row was
\* already used when an apply request arrived.
NoReq ==
    [op |-> "none", pc |-> "idle", user |-> NULL, bookingId |-> NULL, code |-> NULL,
     amount |-> 0, status |-> NULL, rating |-> 0, seen |-> -1, bk |-> NoBooking,
     amt |-> 0, final |-> 0, result |-> NULL, late |-> FALSE]

\* a slot accepts a new request when it runs none
Free(p) == req[p].pc \in {"idle", "done"} /\ budget > 0

Running(p) == req[p].pc \notin {"idle", "done"}

\* res.json(...) or next(new AppError(...)): the handler ends with this outcome
Respond(r, res) ==
    [r EXCEPT !.pc = "done", !.result = res, !.bk = NoBooking, !.amount = 0, !.status = NULL,
              !.rating = 0]

\* the handler moves on to its next await
Goto(r, pc) == [r EXCEPT !.pc = pc]

\* the coupons in the store (there is no route that creates one), by code
Coupons == {"SAVE"}

\* no UserCoupon row for a (userId, couponId) key
NoUserCoupon == [exists |-> FALSE, bookingId |-> NULL, usedAt |-> FALSE]

\* no Invoice row for a booking
NoInvoice == [exists |-> FALSE, userId |-> NULL, total |-> 0, subtotal |-> 0, tax |-> 0,
              discount |-> 0]

\* ------------------------------------------------------------------ Init
\* the store before any request: the seeded users, drivers and coupon, two fresh
\* bookings, no wallet (wallets are created lazily), and an idle server
InitStore ==
    /\ booking = [b \in Bookings |->
                    IF b = "b1" THEN [NewBooking("u1", 1000, "CASH", "d1") EXCEPT !.duration = 30]
                    ELSE NewBooking("u2", 1000, "CASH", NULL)]
    /\ wallet = [u \in Users |-> [exists |-> FALSE, balance |-> 0]]
    /\ txns = EmptyBag
    /\ coupon = [c \in Coupons |->
                    [isActive |-> TRUE, expired |-> FALSE, usageLimit |-> 1, usedCount |-> 0,
                     discountType |-> "FLAT", discountValue |-> 1000, maxDiscount |-> 0,
                     minOrderValue |-> 0]]
    /\ userCoupon = [k \in Users \X Coupons |-> NoUserCoupon]
    /\ referral = EmptyBag
    /\ order = [b \in Bookings |-> [exists |-> FALSE, rating |-> 0, tipAmount |-> 0]]
    /\ driver = [d \in Drivers |-> [rating |-> 0, totalTrips |-> 0]]
    /\ invoice = [b \in Bookings |-> NoInvoice]
    /\ req = [p \in Procs |-> NoReq]

Init == InitStore /\ budget = MaxRequests

\* ------------------------------------------------------------------ wallet
TopUpAmounts == {0, 1000, MaxTopUp + 100}

\* GET /api/wallet: wallet.findUnique
GetWalletFind(p) ==
    /\ Free(p)
    /\ \E u \in Users :
         LET r == [NoReq EXCEPT !.op = "getWallet", !.user = u]
         IN req' = [req EXCEPT ![p] =
                      IF wallet[u].exists THEN Respond(r, "ok") ELSE Goto(r, "wallet_create")]
    /\ budget' = budget - 1
    /\ UNCHANGED store

\* GET /api/wallet: wallet.create when none was found; userId is unique, so the
\* create of a wallet another request created meanwhile throws
GetWalletCreate(p) ==
    /\ req[p].pc = "wallet_create"
    /\ LET u == req[p].user
       IN IF wallet[u].exists
          THEN /\ req' = [req EXCEPT ![p] = Respond(@, "InternalError")]
               /\ UNCHANGED wallet
          ELSE /\ wallet' = [wallet EXCEPT ![u] = [exists |-> TRUE, balance |-> 0]]
               /\ req' = [req EXCEPT ![p] = Respond(@, "ok")]
    /\ UNCHANGED <<booking, txns, coupon, userCoupon, referral, order, driver, invoice, budget>>

\* POST /api/wallet/topup: validation, then wallet.upsert
TopUpUpsert(p) ==
    /\ Free(p)
    /\ \E u \in Users, a \in TopUpAmounts :
         LET r == [NoReq EXCEPT !.op = "topup", !.user = u, !.amount = a]
         IN IF a <= 0 \/ a > MaxTopUp
            THEN /\ req' = [req EXCEPT ![p] = Respond(r, "InvalidAmount")]
                 /\ UNCHANGED wallet
            ELSE /\ wallet' = [wallet EXCEPT ![u] = WalletUpsert(@, a)]
                 /\ req' = [req EXCEPT ![p] = Goto(r, "topup_log")]
    /\ budget' = budget - 1
    /\ UNCHANGED <<booking, txns, coupon, userCoupon, referral, order, driver, invoice>>

\* POST /api/wallet/topup: walletTransaction.create, a write of its own
TopUpLog(p) ==
    /\ req[p].pc = "topup_log"
    /\ txns' = Insert(txns, Txn(req[p].user, "TOP_UP", req[p].amount, NULL))
    /\ req' = [req EXCEPT ![p] = Goto(@, "topup_read")]
    /\ UNCHANGED <<booking, wallet, coupon, userCoupon, referral, order, driver, invoice, budget>>

\* POST /api/wallet/topup: wallet.findUnique for the response
TopUpRead(p) ==
    /\ req[p].pc = "topup_read"
    /\ req' = [req EXCEPT ![p] = Respond(@, "ok")]
    /\ UNCHANGED <<store, budget>>

\* POST /api/wallet/pay: booking.findUnique, the ownership check and the amount
PayFindBooking(p) ==
    /\ Free(p)
    /\ \E u \in Users, b \in Bookings :
         LET r == [NoReq EXCEPT !.op = "pay", !.user = u, !.bookingId = b]
         IN req' = [req EXCEPT ![p] =
                      IF booking[b].userId # u THEN Respond(r, "NotFound")
                      ELSE [r EXCEPT !.pc = "pay_wallet",
                                     !.amt = booking[b].estimatedPrice - booking[b].discountAmount]]
    /\ budget' = budget - 1
    /\ UNCHANGED store

\* POST /api/wallet/pay: wallet.findUnique and the balance check
PayFindWallet(p) ==
    /\ req[p].pc = "pay_wallet"
    /\ LET w == wallet[req[p].user]
       IN req' = [req EXCEPT ![p] =
                    IF ~w.exists \/ w.balance < req[p].amt
                    THEN Respond(@, "InsufficientFunds")
                    ELSE Goto(@, "pay_txn")]
    /\ UNCHANGED <<store, budget>>

\* a payment that debits the wallet and marks the booking, with no transaction row
PayTransactionNoLog(p) ==
    /\ req[p].pc = "pay_txn"
    /\ LET u == req[p].user
           b == req[p].bookingId
           amount == req[p].amt
       IN /\ wallet' = [wallet EXCEPT ![u].balance = @ - amount]
          /\ booking' = [booking EXCEPT ![b].paymentMethod = "WALLET",
                                        ![b].paymentStatus = "COMPLETED",
                                        ![b].finalPrice = amount]
    /\ req' = [req EXCEPT ![p] = Goto(@, "pay_read")]
    /\ UNCHANGED <<txns, coupon, userCoupon, referral, order, driver, invoice, budget>>

\* POST /api/wallet/pay: the $transaction [wallet.update, walletTransaction.create,
\* booking.update]
PayTransaction(p) ==
    /\ req[p].pc = "pay_txn"
    /\ LET u == req[p].user
           b == req[p].bookingId
           amount == req[p].amt
       IN /\ wallet' = [wallet EXCEPT ![u].balance = @ - amount]
          /\ txns' = Insert(txns, Txn(u, "PAYMENT", -amount, b))
          /\ booking' = [booking EXCEPT ![b].paymentMethod = "WALLET",
                                        ![b].paymentStatus = "COMPLETED",
                                        ![b].finalPrice = amount]
    /\ req' = [req EXCEPT ![p] = Goto(@, "pay_read")]
    /\ UNCHANGED <<coupon, userCoupon, referral, order, driver, invoice, budget>>

\* POST /api/wallet/pay: wallet.findUnique for the response
PayRead(p) ==
    /\ req[p].pc = "pay_read"
    /\ req' = [req EXCEPT ![p] = Respond(@, "ok")]
    /\ UNCHANGED <<store, budget>>

\* a store call throws (connection lost, constraint violated): the handler's
\* catch passes the error on and nothing more of the handler runs
Abort(p) ==
    /\ Running(p)
    /\ req' = [req EXCEPT ![p] = Respond(@, "InternalError")]
    /\ UNCHANGED <<store, budget>>


\* ------------------------------------------------------------------ bookings
OtpInputs == {"1234", "0000", ""}
StatusInputs == BookingStatus \cup {"BOGUS"}
\* req.body.eta of PUT /:id/status; -1 stands for undefined
EtaInputs == {-1, 0, 5}

\* JavaScript's a || b on numbers: a unless it is 0
OrElse(a, b) == IF a # 0 THEN a ELSE b

\* a verification that does not compare the OTP
VerifyDeliveryFindAnyOtp(p) ==
    /\ Free(p)
    /\ \E u \in Users, b \in Bookings, otp \in OtpInputs :
         LET r == [NoReq EXCEPT !.op = "verifyDelivery", !.user = u, !.bookingId = b,
                                !.code = otp]
             bk == booking[b]
         IN req' = [req EXCEPT ![p] =
                      IF otp = "" THEN Respond(r, "OtpRequired")
                      ELSE IF bk.userId # u THEN Respond(r, "NotAuthorized")
                      ELSE IF bk.status = "DELIVERED" THEN Respond(r, "AlreadyDelivered")
                      ELSE IF bk.status = "CANCELLED" THEN Respond(r, "AlreadyCancelled")
                      ELSE [r EXCEPT !.pc = "verify_update", !.bk = bk]]
    /\ budget' = budget - 1
    /\ UNCHANGED store

\* POST /api/bookings/:id/verify-delivery: the otp-present check, booking.findUnique
\* and the checks on what was read
VerifyDeliveryFind(p) ==
    /\ Free(p)
    /\ \E u \in Users, b \in Bookings, otp \in OtpInputs :
         LET r == [NoReq EXCEPT !.op = "verifyDelivery", !.user = u, !.bookingId = b,
                                !.code = otp]
             bk == booking[b]
         IN req' = [req EXCEPT ![p] =
                      IF otp = "" THEN Respond(r, "OtpRequired")
                      ELSE IF bk.userId # u THEN Respond(r, "NotAuthorized")
                      ELSE IF bk.status = "DELIVERED" THEN Respond(r, "AlreadyDelivered")
                      ELSE IF bk.status = "CANCELLED" THEN Respond(r, "AlreadyCancelled")
                      ELSE IF bk.otp # otp THEN Respond(r, "InvalidOtp")
                      ELSE [r EXCEPT !.pc = "verify_update", !.bk = bk]]
    /\ budget' = budget - 1
    /\ UNCHANGED store

\* verify-delivery: booking.update, with the payment status computed from the
\* booking as it was read
VerifyDeliveryUpdate(p) ==
    /\ req[p].pc = "verify_update"
    /\ LET b == req[p].bookingId
           bk == req[p].bk
       IN booking' = [booking EXCEPT
                        ![b].status = "DELIVERED",
                        ![b].deliveredAt = TRUE,
                        ![b].paymentStatus =
                            IF bk.paymentMethod = "CASH" THEN "COMPLETED" ELSE bk.paymentStatus]
    /\ req' = [req EXCEPT ![p] = Goto(@, "verify_order")]
    /\ UNCHANGED <<wallet, txns, coupon, userCoupon, referral, order, driver, invoice, budget>>

\* a delivery whose upsert writes a fresh Order row over the one it finds
VerifyDeliveryOrderFresh(p) ==
    /\ req[p].pc = "verify_order"
    /\ LET b == req[p].bookingId
       IN order' = [order EXCEPT ![b] = [exists |-> TRUE, rating |-> 0, tipAmount |-> 0]]
    /\ req' = [req EXCEPT ![p] =
                 IF req[p].bk.driverId # NULL THEN Goto(@, "verify_driver")
                 ELSE Respond(@, "ok")]
    /\ UNCHANGED <<booking, wallet, txns, coupon, userCoupon, referral, driver, invoice, budget>>

\* verify-delivery: order.upsert({create: {bookingId}, update: {}})
VerifyDeliveryOrder(p) ==
    /\ req[p].pc = "verify_order"
    /\ LET b == req[p].bookingId
       IN order' = [order EXCEPT ![b] = IF @.exists THEN @
                                         ELSE [exists |-> TRUE, rating |-> 0, tipAmount |-> 0]]
    /\ req' = [req EXCEPT ![p] =
                 IF req[p].bk.driverId # NULL THEN Goto(@, "verify_driver")
                 ELSE Respond(@, "ok")]
    /\ UNCHANGED <<booking, wallet, txns, coupon, userCoupon, referral, driver, invoice, budget>>

\* verify-delivery: driver.update({totalTrips: {increment: 1}})
VerifyDeliveryDriver(p) ==
    /\ req[p].pc = "verify_driver"
    /\ driver' = [driver EXCEPT ![req[p].bk.driverId].totalTrips = @ + 1]
    /\ req' = [req EXCEPT ![p] = Respond(@, "ok")]
    /\ UNCHANGED <<booking, wallet, txns, coupon, userCoupon, referral, order, invoice, budget>>

\* PUT /api/bookings/:id/status: the status checks, booking.findUnique and the
\* ownership check
UpdateStatusFind(p) ==
    /\ Free(p)
    /\ \E u \in Users, b \in Bookings, s \in StatusInputs, eta \in EtaInputs :
         LET r == [NoReq EXCEPT !.op = "updateStatus", !.user = u, !.bookingId = b,
                                !.status = s, !.amount = eta]
         IN req' = [req EXCEPT ![p] =
                      IF s \notin BookingStatus
                      THEN [Respond(r, "InvalidStatus") EXCEPT !.status = s]
                      ELSE IF booking[b].userId # u THEN Respond(r, "NotAuthorized")
                      ELSE Goto(r, "status_update")]
    /\ budget' = budget - 1
    /\ UNCHANGED store

\* a status update that leaves deliveredAt and paymentStatus alone
UpdateStatusUpdateStatusOnly(p) ==
    /\ req[p].pc = "status_update"
    /\ LET b == req[p].bookingId
           s == req[p].status
       IN booking' = [booking EXCEPT
                        ![b].status = s,
                        ![b].eta = IF req[p].amount # -1 THEN req[p].amount ELSE @]
    /\ req' = [req EXCEPT ![p] = Respond(@, "ok")]
    /\ UNCHANGED <<wallet, txns, coupon, userCoupon, referral, order, driver, invoice, budget>>

\* PUT /api/bookings/:id/status: booking.update with updateData
UpdateStatusUpdate(p) ==
    /\ req[p].pc = "status_update"
    /\ LET b == req[p].bookingId
           s == req[p].status
       IN booking' = [booking EXCEPT
                        ![b].status = s,
                        ![b].eta = IF req[p].amount # -1 THEN req[p].amount ELSE @,
                        ![b].deliveredAt = IF s = "DELIVERED" THEN TRUE ELSE @,
                        ![b].paymentStatus = IF s = "CANCELLED" THEN "REFUNDED" ELSE @]
    /\ req' = [req EXCEPT ![p] = Respond(@, "ok")]
    /\ UNCHANGED <<wallet, txns, coupon, userCoupon, referral, order, driver, invoice, budget>>

\* GET /api/bookings/:id: booking.findUnique and the ownership check
GetBooking(p) ==
    /\ Free(p)
    /\ \E u \in Users, b \in Bookings :
         LET r == [NoReq EXCEPT !.op = "getBooking", !.user = u, !.bookingId = b]
         IN req' = [req EXCEPT ![p] =
                      IF booking[b].userId # u THEN Respond(r, "NotAuthorized")
                      ELSE Respond(r, "ok")]
    /\ budget' = budget - 1
    /\ UNCHANGED store

\* an ETA projection without the ownership check
GetEtaOpen(p) ==
    /\ Free(p)
    /\ \E u \in Users, b \in Bookings :
         LET r == [NoReq EXCEPT !.op = "getEta", !.user = u, !.bookingId = b]
         IN req' = [req EXCEPT ![p] = Respond(r, "ok")]
    /\ budget' = budget - 1
    /\ UNCHANGED store

\* etaMinutes of GET /:id/eta (to || a null eta is as 0 is, falsy):
\* booking.eta || booking.duration || 0, replaced for
\* DRIVER_ASSIGNED by booking.eta || 10 and for DRIVER_ARRIVED, DELIVERED and
\* CANCELLED by 0
EtaMinutes(bk) ==
    LET eta == IF bk.eta = NoEta THEN 0 ELSE bk.eta
    IN IF bk.status = "DRIVER_ASSIGNED" THEN OrElse(eta, 10)
       ELSE IF bk.status \in {"DRIVER_ARRIVED", "DELIVERED", "CANCELLED"} THEN 0
       ELSE OrElse(eta, OrElse(bk.duration, 0))

\* GET /api/bookings/:id/eta: booking.findUnique, the ownership check and the
\* projection
GetEta(p) ==
    /\ Free(p)
    /\ \E u \in Users, b \in Bookings :
         LET r == [NoReq EXCEPT !.op = "getEta", !.user = u, !.bookingId = b]
         IN req' = [req EXCEPT ![p] =
                      IF booking[b].userId # u THEN Respond(r, "NotAuthorized")
                      ELSE Respond([r EXCEPT !.amt = EtaMinutes(booking[b])], "ok")]
    /\ budget' = budget - 1
    /\ UNCHANGED store

\* a cancellation that refuses delivered bookings only
CancelFindDeliveredOnly(p) ==
    /\ Free(p)
    /\ \E u \in Users, b \in Bookings :
         LET r == [NoReq EXCEPT !.op = "cancel", !.user = u, !.bookingId = b]
             bk == booking[b]
         IN req' = [req EXCEPT ![p] =
                      IF bk.userId # u THEN Respond(r, "NotAuthorized")
                      ELSE IF bk.status \in {"DELIVERED"}
                           THEN Respond(r, "NotCancellable")
                      ELSE [r EXCEPT !.pc = "cancel_update", !.bk = bk]]
    /\ budget' = budget - 1
    /\ UNCHANGED store

\* POST /api/bookings/:id/cancel: booking.findUnique, the ownership check and
\* the nonCancellable check
CancelFind(p) ==
    /\ Free(p)
    /\ \E u \in Users, b \in Bookings :
         LET r == [NoReq EXCEPT !.op = "cancel", !.user = u, !.bookingId = b]
             bk == booking[b]
         IN req' = [req EXCEPT ![p] =
                      IF bk.userId # u THEN Respond(r, "NotAuthorized")
                      ELSE IF bk.status \in {"DELIVERED", "CANCELLED"}
                           THEN Respond(r, "NotCancellable")
                      ELSE [r EXCEPT !.pc = "cancel_update", !.bk = bk]]
    /\ budget' = budget - 1
    /\ UNCHANGED store

\* a cancellation whose first write leaves the status alone
CancelUpdateNoStatus(p) ==
    /\ req[p].pc = "cancel_update"
    /\ req' = [req EXCEPT ![p] =
                 IF req[p].bk.paymentMethod = "WALLET" /\ req[p].bk.paymentStatus = "COMPLETED"
                 THEN Goto(@, "cancel_wallet")
                 ELSE Respond(@, "ok")]
    /\ UNCHANGED <<store, budget>>

\* cancel: booking.update({status: 'CANCELLED'}), a write of its own; the refund
\* follows when the booking as it was read was paid from the wallet
CancelUpdate(p) ==
    /\ req[p].pc = "cancel_update"
    /\ booking' = [booking EXCEPT ![req[p].bookingId].status = "CANCELLED"]
    /\ req' = [req EXCEPT ![p] =
                 IF req[p].bk.paymentMethod = "WALLET" /\ req[p].bk.paymentStatus = "COMPLETED"
                 THEN Goto(@, "cancel_wallet")
                 ELSE Respond(@, "ok")]
    /\ UNCHANGED <<wallet, txns, coupon, userCoupon, referral, order, driver, invoice, budget>>

\* cancel: the refund amount, finalPrice || estimatedPrice of the booking as read
RefundAmount(bk) == OrElse(bk.finalPrice, bk.estimatedPrice)

\* cancel: wallet.findUnique
CancelFindWallet(p) ==
    /\ req[p].pc = "cancel_wallet"
    /\ req' = [req EXCEPT ![p] =
                 IF wallet[req[p].user].exists
                 THEN [@ EXCEPT !.pc = "cancel_refund", !.amt = RefundAmount(req[p].bk)]
                 ELSE Respond(@, "ok")]
    /\ UNCHANGED <<store, budget>>

\* cancel: the $transaction [wallet.update, walletTransaction.create, booking.update]
CancelRefund(p) ==
    /\ req[p].pc = "cancel_refund"
    /\ LET u == req[p].user
           b == req[p].bookingId
           amount == req[p].amt
       IN /\ wallet' = [wallet EXCEPT ![u].balance = @ + amount]
          /\ txns' = Insert(txns, Txn(u, "REFUND", amount, b))
          /\ booking' = [booking EXCEPT ![b].paymentStatus = "REFUNDED"]
    /\ req' = [req EXCEPT ![p] = Respond(@, "ok")]
    /\ UNCHANGED <<coupon, userCoupon, referral, order, driver, invoice, budget>>


\* ------------------------------------------------------------------ promo
CodeInputs == {"SAVE", "save", "NOPE"}
OrderAmounts == {0, 1000, 1005}

\* code.toUpperCase()
ToUpperCase(code) == IF code = "save" THEN "SAVE" ELSE code

\* Math.round(n / d) for d > 0: the nearest integer, halves upward
RoundDiv(n, d) == (2 * n + d) \div (2 * d)

\* a discount that ignores maxDiscount
DiscountUncapped(c, amount) ==
    IF c.discountType = "PERCENTAGE" THEN RoundDiv(amount * c.discountValue, 100)
    ELSE c.discountValue

\* the discount of a coupon on an amount, in sen: PERCENTAGE is amount * value / 100
\* clamped to a set maxDiscount, FLAT is the value; then Math.round(discount * 100) / 100
Discount(c, amount) ==
    IF c.discountType = "PERCENTAGE"
    THEN IF c.maxDiscount # 0 /\ amount * c.discountValue > c.maxDiscount * 100
         THEN c.maxDiscount
         ELSE RoundDiv(amount * c.discountValue, 100)
    ELSE c.discountValue

\* the response of POST /api/promo/validate, kept with the orderAmount it answers
Answer(r, res) == [Respond(r, res) EXCEPT !.amount = r.amount]

\* POST /api/promo/validate: coupon.findUnique and the checks on the coupon
ValidateFindCoupon(p) ==
    /\ Free(p)
    /\ \E u \in Users, code \in CodeInputs, orderAmount \in OrderAmounts :
         LET cd == ToUpperCase(code)
             r == [NoReq EXCEPT !.op = "validate", !.user = u, !.code = cd,
                                !.amount = orderAmount]
         IN req' = [req EXCEPT ![p] =
                      IF cd \notin Coupons THEN Answer(r, "CodeNotFound")
                      ELSE IF ~coupon[cd].isActive THEN Answer(r, "CodeInactive")
                      ELSE IF coupon[cd].expired THEN Answer(r, "CodeExpired")
                      ELSE IF coupon[cd].usedCount >= coupon[cd].usageLimit
                           THEN Answer(r, "UsageLimitReached")
                      ELSE IF orderAmount # 0 /\ orderAmount < coupon[cd].minOrderValue
                           THEN Answer(r, "BelowMinimumOrder")
                      ELSE Goto(r, "validate_user")]
    /\ budget' = budget - 1
    /\ UNCHANGED store

\* POST /api/promo/validate: userCoupon.findUnique, then the discount
ValidateFindUserCoupon(p) ==
    /\ req[p].pc = "validate_user"
    /\ LET existing == userCoupon[<<req[p].user, req[p].code>>]
       IN req' = [req EXCEPT ![p] =
                    IF existing.exists /\ existing.usedAt THEN Answer(@, "AlreadyRedeemed")
                    ELSE Answer([@ EXCEPT !.amt = Discount(coupon[req[p].code], req[p].amount)],
                                 "ok")]
    /\ UNCHANGED <<store, budget>>

\* POST /api/promo/apply: booking.findUnique and the ownership check
ApplyFindBooking(p) ==
    /\ Free(p)
    /\ \E u \in Users, code \in CodeInputs, b \in Bookings :
         LET cd == ToUpperCase(code)
             r == [NoReq EXCEPT !.op = "apply", !.user = u, !.code = cd, !.bookingId = b,
                                !.late = (cd \in Coupons /\ userCoupon[<<u, cd>>].usedAt)]
         IN req' = [req EXCEPT ![p] =
                      IF booking[b].userId # u THEN Respond(r, "NotFound")
                      ELSE [r EXCEPT !.pc = "apply_coupon", !.bk = booking[b]]]
    /\ budget' = budget - 1
    /\ UNCHANGED store

\* the checks POST /api/promo/apply makes on the coupon it read
ApplyAccepts(cd, u) == cd \in Coupons /\ coupon[cd].isActive

\* POST /api/promo/apply: coupon.findUnique, its checks and the discount on the
\* booking's estimated price
ApplyFindCoupon(p) ==
    /\ req[p].pc = "apply_coupon"
    /\ LET cd == req[p].code
       IN req' = [req EXCEPT ![p] =
                    IF ~ApplyAccepts(cd, req[p].user) THEN Respond(@, "InvalidCode")
                    ELSE [@ EXCEPT !.pc = "apply_txn",
                                   !.seen = coupon[cd].usedCount,
                                   !.amt = Discount(coupon[cd], req[p].bk.estimatedPrice)]]
    /\ UNCHANGED <<store, budget>>

\* a redemption that writes the booking only
ApplyBookingOnly(p) ==
    /\ req[p].pc = "apply_txn"
    /\ booking' = [booking EXCEPT ![req[p].bookingId].promoCode = req[p].code,
                                  ![req[p].bookingId].discountAmount = req[p].amt]
    /\ req' = [req EXCEPT ![p] =
                 Respond([@ EXCEPT !.final = req[p].bk.estimatedPrice - req[p].amt], "ok")]
    /\ UNCHANGED <<wallet, txns, coupon, userCoupon, referral, order, driver, invoice, budget>>

\* POST /api/promo/apply: the $transaction [booking.update, coupon.update,
\* userCoupon.upsert]
ApplyTransaction(p) ==
    /\ req[p].pc = "apply_txn"
    /\ LET u == req[p].user
           b == req[p].bookingId
           cd == req[p].code
       IN /\ booking' = [booking EXCEPT ![b].promoCode = cd, ![b].discountAmount = req[p].amt]
          /\ coupon' = [coupon EXCEPT ![cd].usedCount = @ + 1]
          /\ userCoupon' = [userCoupon EXCEPT ![<<u, cd>>] =
                              [exists |-> TRUE, bookingId |-> b, usedAt |-> TRUE]]
    /\ req' = [req EXCEPT ![p] =
                 Respond([@ EXCEPT !.final = req[p].bk.estimatedPrice - req[p].amt], "ok")]
    /\ UNCHANGED <<wallet, txns, referral, order, driver, invoice, budget>>

\* ------------------------------------------------------------------ referral
\* user.findUnique({where: {referralCode}}): the user owning a referral code
ReferrerOf(code) == IF \E u \in Users : ReferralCodeOf(u) = code
                    THEN CHOOSE u \in Users : ReferralCodeOf(u) = code
                    ELSE NULL

\* referral.findFirst({where: {refereeId}})
HasReferral(u) == \E r \in DOMAIN referral : r.refereeId = u

\* whether the store keeps refereeId unique in the Referral table
RefereeIdUnique == FALSE

\* POST /api/promo/referral/apply: user.findUnique by code and the checks on it
ApplyReferralFindReferrer(p) ==
    /\ Free(p)
    /\ \E u \in Users, code \in ReferralCodes :
         LET r == [NoReq EXCEPT !.op = "applyReferral", !.user = u, !.code = code]
         IN req' = [req EXCEPT ![p] =
                      IF ReferrerOf(code) = NULL THEN Respond(r, "InvalidCode")
                      ELSE IF ReferrerOf(code) = u THEN Respond(r, "SelfReferral")
                      ELSE Goto(r, "referral_check")]
    /\ budget' = budget - 1
    /\ UNCHANGED store

\* POST /api/promo/referral/apply: referral.findFirst by refereeId
ApplyReferralFindExisting(p) ==
    /\ req[p].pc = "referral_check"
    /\ req' = [req EXCEPT ![p] =
                 IF HasReferral(req[p].user) THEN Respond(@, "AlreadyReferred")
                 ELSE Goto(@, "referral_txn")]
    /\ UNCHANGED <<store, budget>>

\* a loop that stops after the referrer: the referee is not credited
CreditReferrerOnly(w, referrer, referee) ==
    [w EXCEPT ![referrer] = WalletUpsert(@, rewardAmount)]

\* the wallets after the loop `for (const userId of [referrer.id, req.user.userId])`
\* has upserted each with the reward
CreditBoth(w, referrer, referee) ==
    [w EXCEPT ![referrer] = WalletUpsert(@, rewardAmount),
              ![referee] = WalletUpsert(@, rewardAmount)]

\* POST /api/promo/referral/apply: the interactive $transaction: referral.create,
\* then wallet.upsert and walletTransaction.create for the referrer and the referee
ApplyReferralTransaction(p) ==
    /\ req[p].pc = "referral_txn"
    /\ LET u == req[p].user
           referrer == ReferrerOf(req[p].code)
       IN IF RefereeIdUnique /\ HasReferral(u)
          THEN /\ req' = [req EXCEPT ![p] = Respond(@, "InternalError")]
               /\ UNCHANGED <<referral, wallet, txns>>
          ELSE /\ referral' = Insert(referral,
                                [referrerId |-> referrer, refereeId |-> u,
                                 referralCode |-> req[p].code,
                                 rewardAmount |-> rewardAmount, status |-> "COMPLETED"])
               /\ wallet' = CreditBoth(wallet, referrer, u)
               /\ txns' = Insert(Insert(txns, Txn(referrer, "REFERRAL_BONUS", rewardAmount, NULL)),
                                 Txn(u, "REFERRAL_BONUS", rewardAmount, NULL))
               /\ req' = [req EXCEPT ![p] = Respond(@, "ok")]
    /\ UNCHANGED <<booking, coupon, userCoupon, order, driver, invoice, budget>>


\* ------------------------------------------------------------------ ratings
RatingInputs == {0, 3, 5, 6}
TipInputs == {0, 500}

\* next(new AppError(...)) before the first write of a rating; the response keeps
\* the rating that was sent
Rejected(r, res) == [Respond(r, res) EXCEPT !.rating = r.rating]

RECURSIVE SumRatings(_)
SumRatings(S) == IF S = {} THEN 0
                 ELSE LET b == CHOOSE x \in S : TRUE
                      IN order[b].rating + SumRatings(S \ {b})

\* order.findMany({where: {booking: {driverId}, rating: {not: null}}}): the
\* bookings of a driver whose order carries a rating (0 stands for null)
RatedBookings(d) ==
    {b \in Bookings : booking[b].driverId = d /\ order[b].exists /\ order[b].rating # 0}

\* Math.round(avgRating * 10) / 10, kept in tenths
AverageRating(d) == RoundDiv(SumRatings(RatedBookings(d)) * 10, Cardinality(RatedBookings(d)))

\* a rating handler that does not look at the booking's status
SubmitRatingFindAnyStatus(p) ==
    /\ Free(p)
    /\ \E u \in Users, b \in Bookings, rating \in RatingInputs, tip \in TipInputs :
         LET r == [NoReq EXCEPT !.op = "submitRating", !.user = u, !.bookingId = b,
                                !.rating = rating, !.amount = tip]
             bk == booking[b]
         IN req' = [req EXCEPT ![p] =
                      IF rating < 1 \/ rating > 5 THEN Rejected(r, "InvalidRating")
                      ELSE IF bk.userId # u THEN Rejected(r, "NotAuthorized")
                      ELSE [r EXCEPT !.pc = "rating_order", !.bk = bk]]
    /\ budget' = budget - 1
    /\ UNCHANGED store

\* POST /api/ratings/:bookingId: the rating check, booking.findUnique and the
\* checks on the booking
SubmitRatingFind(p) ==
    /\ Free(p)
    /\ \E u \in Users, b \in Bookings, rating \in RatingInputs, tip \in TipInputs :
         LET r == [NoReq EXCEPT !.op = "submitRating", !.user = u, !.bookingId = b,
                                !.rating = rating, !.amount = tip]
             bk == booking[b]
         IN req' = [req EXCEPT ![p] =
                      IF rating < 1 \/ rating > 5 THEN Rejected(r, "InvalidRating")
                      ELSE IF bk.userId # u THEN Rejected(r, "NotAuthorized")
                      ELSE IF bk.status # "DELIVERED" THEN Rejected(r, "NotDelivered")
                      ELSE [r EXCEPT !.pc = "rating_order", !.bk = bk]]
    /\ budget' = budget - 1
    /\ UNCHANGED store

\* POST /api/ratings/:bookingId: order.upsert with the rating and the tip amount
SubmitRatingOrder(p) ==
    /\ req[p].pc = "rating_order"
    /\ order' = [order EXCEPT ![req[p].bookingId] =
                   [exists |-> TRUE, rating |-> req[p].rating, tipAmount |-> req[p].amount]]
    /\ req' = [req EXCEPT ![p] =
                 IF req[p].bk.driverId # NULL THEN Goto(@, "rating_avg") ELSE Respond(@, "ok")]
    /\ UNCHANGED <<booking, wallet, txns, coupon, userCoupon, referral, driver, invoice, budget>>

\* POST /api/ratings/:bookingId: order.findMany of the driver's rated orders and
\* their average
SubmitRatingAverage(p) ==
    /\ req[p].pc = "rating_avg"
    /\ req' = [req EXCEPT ![p] =
                 [@ EXCEPT !.pc = "rating_driver", !.amt = AverageRating(req[p].bk.driverId)]]
    /\ UNCHANGED <<store, budget>>

\* POST /api/ratings/:bookingId: driver.update with the average; the tip follows
\* when one was given
SubmitRatingDriver(p) ==
    /\ req[p].pc = "rating_driver"
    /\ driver' = [driver EXCEPT ![req[p].bk.driverId].rating = req[p].amt]
    /\ req' = [req EXCEPT ![p] =
                 IF req[p].amount > 0 THEN Goto(@, "rating_wallet") ELSE Respond(@, "ok")]
    /\ UNCHANGED <<booking, wallet, txns, coupon, userCoupon, referral, order, invoice, budget>>

\* POST /api/ratings/:bookingId: wallet.findUnique and the balance check of the tip
SubmitRatingFindWallet(p) ==
    /\ req[p].pc = "rating_wallet"
    /\ LET w == wallet[req[p].user]
       IN req' = [req EXCEPT ![p] =
                    IF w.exists /\ w.balance >= req[p].amount THEN Goto(@, "rating_tip")
                    ELSE Respond(@, "ok")]
    /\ UNCHANGED <<store, budget>>

\* POST /api/ratings/:bookingId: the $transaction [wallet.update,
\* walletTransaction.create] of the tip
SubmitRatingTip(p) ==
    /\ req[p].pc = "rating_tip"
    /\ LET u == req[p].user
           tipAmount == req[p].amount
       IN /\ wallet' = [wallet EXCEPT ![u].balance = @ - tipAmount]
          /\ txns' = Insert(txns, Txn(u, "PAYMENT", -tipAmount, req[p].bookingId))
    /\ req' = [req EXCEPT ![p] = Respond(@, "ok")]
    /\ UNCHANGED <<booking, coupon, userCoupon, referral, order, driver, invoice, budget>>

\* ------------------------------------------------------------------ invoices
\* POST /api/invoices/:bookingId: booking.findUnique with its invoice, the
\* ownership check and the return of an existing invoice
GenerateFind(p) ==
    /\ Free(p)
    /\ \E u \in Users, b \in Bookings :
         LET r == [NoReq EXCEPT !.op = "generate", !.user = u, !.bookingId = b]
         IN req' = [req EXCEPT ![p] =
                      IF booking[b].userId # u THEN Respond(r, "NotAuthorized")
                      ELSE IF invoice[b].exists
                           THEN Respond([r EXCEPT !.amt = invoice[b].total], "ok")
                      ELSE [r EXCEPT !.pc = "generate_create", !.bk = booking[b]]]
    /\ budget' = budget - 1
    /\ UNCHANGED store

\* Math.round((n / d) * 100) / 100 of an amount n / d in tenths of a sen: the
\* nearest whole sen, in tenths of a sen
Round2(n, d) == RoundDiv(n, d * 10) * 10

\* an invoice that is always drawn on the estimated price, rounded to the sen
NewInvoiceOnEstimate(u, bk) ==
    LET price == Round2(bk.estimatedPrice * 10 + bk.mills, 1)
        subtotal == Round2(price * 100, 106)
    IN [exists |-> TRUE, userId |-> u, total |-> price, subtotal |-> subtotal,
        tax |-> price - subtotal, discount |-> OrElse(bk.discountAmount, 0) * 10]

\* the Invoice row of a booking as read, its amounts in tenths of a sen:
\* price = finalPrice || estimatedPrice, subtotal = Math.round(price / 1.06 * 100)
\* / 100, tax = Math.round((price - subtotal) * 100) / 100, total = price
NewInvoice(u, bk) ==
    LET price == OrElse(bk.finalPrice, bk.estimatedPrice) * 10 + bk.mills
        subtotal == Round2(price * 100, 106)
        tax == Round2(price - subtotal, 1)
    IN [exists |-> TRUE, userId |-> u, total |-> price, subtotal |-> subtotal,
        tax |-> tax, discount |-> OrElse(bk.discountAmount, 0) * 10]

\* POST /api/invoices/:bookingId: invoice.create; bookingId is the unique key of
\* the one-to-one relation, so a second row for the booking is refused
GenerateCreate(p) ==
    /\ req[p].pc = "generate_create"
    /\ LET b == req[p].bookingId
       IN IF invoice[b].exists
          THEN /\ req' = [req EXCEPT ![p] = Respond(@, "InternalError")]
               /\ UNCHANGED invoice
          ELSE /\ invoice' = [invoice EXCEPT ![b] = NewInvoice(req[p].user, req[p].bk)]
               /\ req' = [req EXCEPT ![p] =
                            Respond([@ EXCEPT !.amt = invoice'[b].total], "created")]
    /\ UNCHANGED <<booking, wallet, txns, coupon, userCoupon, referral, order, driver, budget>>

\* ------------------------------------------------------------------ specifications
Generate(p) == GenerateFind(p) \/ GenerateCreate(p)
TopUp(p) == TopUpUpsert(p) \/ TopUpLog(p) \/ TopUpRead(p)
GetWallet(p) == GetWalletFind(p) \/ GetWalletCreate(p)
Pay(p) == PayFindBooking(p) \/ PayFindWallet(p) \/ PayTransaction(p) \/ PayRead(p)
VerifyDelivery(p) ==
    VerifyDeliveryFind(p) \/ VerifyDeliveryUpdate(p) \/ VerifyDeliveryOrder(p)
        \/ VerifyDeliveryDriver(p)
UpdateStatus(p) == UpdateStatusFind(p) \/ UpdateStatusUpdate(p)
Cancel(p) == CancelFind(p) \/ CancelUpdate(p) \/ CancelFindWallet(p) \/ CancelRefund(p)
Validate(p) == ValidateFindCoupon(p) \/ ValidateFindUserCoupon(p)
Apply(p) == ApplyFindBooking(p) \/ ApplyFindCoupon(p) \/ ApplyTransaction(p)
ApplyReferral(p) ==
    ApplyReferralFindReferrer(p) \/ ApplyReferralFindExisting(p) \/ ApplyReferralTransaction(p)
SubmitRating(p) ==
    SubmitRatingFind(p) \/ SubmitRatingOrder(p) \/ SubmitRatingAverage(p)
        \/ SubmitRatingDriver(p) \/ SubmitRatingFindWallet(p) \/ SubmitRatingTip(p)

\* every handler of the model, any interleaving
Next ==
    \E p \in Procs :
        \/ TopUp(p) \/ GetWallet(p) \/ Pay(p) \/ VerifyDelivery(p) \/ UpdateStatus(p)
        \/ Cancel(p) \/ Validate(p) \/ Apply(p) \/ ApplyReferral(p) \/ SubmitRating(p)
        \/ GetBooking(p) \/ GetEta(p) \/ Generate(p)
        \/ Abort(p)

Spec == Init /\ [][Next]_vars


\* the handlers that move money between wallets and the ledger
InitLedger == InitStore /\ budget = MaxLedgerRequests
NextLedger ==
    \E p \in Procs :
        TopUp(p) \/ GetWallet(p) \/ Pay(p) \/ Cancel(p) \/ ApplyReferral(p) \/ Abort(p)
SpecLedger == InitLedger /\ [][NextLedger]_vars

\* the coupon handlers
InitPromo == InitStore /\ budget = MaxPromoRequests
NextPromo == \E p \in Procs : Validate(p) \/ Apply(p) \/ Abort(p)
SpecPromo == InitPromo /\ [][NextPromo]_vars

\* the handlers that change a booking's status, and the payment a cancellation
\* refunds
InitBooking == InitStore /\ budget = MaxBookingRequests
NextBooking ==
    \E p \in Procs :
        VerifyDelivery(p) \/ UpdateStatus(p) \/ Cancel(p) \/ TopUp(p) \/ Pay(p) \/ Abort(p)
SpecBooking == InitBooking /\ [][NextBooking]_vars

\* the coupon handlers over every kind of coupon: the coupon in the store is any
\* of CouponSeeds and the bookings' estimated prices any of PriceSeeds
CouponSeeds ==
    [isActive : BOOLEAN, expired : BOOLEAN, usageLimit : {1}, usedCount : {0, 1},
     discountType : {"PERCENTAGE"}, discountValue : {10}, maxDiscount : {0, 500},
     minOrderValue : {0, 1001}]
    \cup
    [isActive : BOOLEAN, expired : BOOLEAN, usageLimit : {1}, usedCount : {0, 1},
     discountType : {"FLAT"}, discountValue : {1000}, maxDiscount : {0},
     minOrderValue : {0, 1001}]
PriceSeeds == {1005, 10000}
InitCoupon ==
    /\ \E price \in PriceSeeds :
          booking = [b \in Bookings |->
                       IF b = "b1" THEN NewBooking("u1", price, "CASH", "d1")
                       ELSE NewBooking("u2", price, "CASH", NULL)]
    /\ coupon \in [Coupons -> CouponSeeds]
    /\ wallet = [u \in Users |-> [exists |-> FALSE, balance |-> 0]]
    /\ txns = EmptyBag
    /\ userCoupon = [k \in Users \X Coupons |-> NoUserCoupon]
    /\ referral = EmptyBag
    /\ order = [b \in Bookings |-> [exists |-> FALSE, rating |-> 0, tipAmount |-> 0]]
    /\ driver = [d \in Drivers |-> [rating |-> 0, totalTrips |-> 0]]
    /\ invoice = [b \in Bookings |-> NoInvoice]
    /\ req = [p \in Procs |-> NoReq]
    /\ budget = MaxCouponRequests
NextCoupon == \E p \in Procs : Validate(p) \/ Apply(p) \/ Abort(p)
SpecCoupon == InitCoupon /\ [][NextCoupon]_vars

\* delivery and cancellation of a booking found in any status, paid from the
\* wallet or not.  Every seeded store is one the handlers produce: b1 is moved to
\* the status by PUT /:id/status and, when paid, a top-up of 10.00 and a Pay of
\* b1 have run; funds is what the requester topped up beyond that.
Seeded(funds) ==
    /\ \E s \in BookingStatus, paid \in BOOLEAN :
          /\ booking = [b \in Bookings |->
                IF b = "b1"
                THEN [NewBooking("u1", 1000, IF paid THEN "WALLET" ELSE "CASH", "d1")
                         EXCEPT !.status = s,
                                !.duration = 30,
                                !.deliveredAt = (s = "DELIVERED"),
                                !.finalPrice = IF paid THEN 1000 ELSE 0,
                                !.paymentStatus = IF paid THEN "COMPLETED"
                                                  ELSE IF s = "CANCELLED" THEN "REFUNDED"
                                                  ELSE "PENDING"]
                ELSE NewBooking("u2", 1000, "CASH", NULL)]
          /\ wallet = [u \in Users |->
                         [exists |-> (paid \/ funds > 0) /\ u = "u1",
                          balance |-> IF u = "u1" THEN funds ELSE 0]]
          /\ txns = IF paid
                    THEN Insert(Insert(EmptyBag, Txn("u1", "TOP_UP", 1000 + funds, NULL)),
                                Txn("u1", "PAYMENT", -1000, "b1"))
                    ELSE IF funds > 0
                    THEN Insert(EmptyBag, Txn("u1", "TOP_UP", funds, NULL))
                    ELSE EmptyBag
    /\ coupon = [c \in Coupons |->
                    [isActive |-> TRUE, expired |-> FALSE, usageLimit |-> 1, usedCount |-> 0,
                     discountType |-> "FLAT", discountValue |-> 1000, maxDiscount |-> 0,
                     minOrderValue |-> 0]]
    /\ userCoupon = [k \in Users \X Coupons |-> NoUserCoupon]
    /\ referral = EmptyBag
    /\ order = [b \in Bookings |-> [exists |-> FALSE, rating |-> 0, tipAmount |-> 0]]
    /\ driver = [d \in Drivers |-> [rating |-> 0, totalTrips |-> 0]]
    /\ invoice = [b \in Bookings |-> NoInvoice]
    /\ req = [p \in Procs |-> NoReq]
SeededStatus == Seeded(0)
InitStatus == SeededStatus /\ budget = MaxStatusRequests
NextStatus == \E p \in Procs : VerifyDelivery(p) \/ Cancel(p) \/ Abort(p)
SpecStatus == InitStatus /\ [][NextStatus]_vars

\* ratings and tips of two bookings of one requester: b1 is carried by driver d1
\* and is in transit or delivered, b2 is delivered with driver d1 or with none,
\* and the requester has no wallet or one topped up with one of FundSeeds.  Every
\* seeded store is one the handlers produce (PUT /:id/status, POST /wallet/topup,
\* GET /wallet).
FundSeeds == {0, 500}
InitRating ==
    /\ \E s \in {"IN_TRANSIT", "DELIVERED"}, drv \in Drivers \cup {NULL} :
          booking = [b \in Bookings |->
                IF b = "b1"
                THEN [NewBooking("u1", 1000, "CASH", "d1")
                         EXCEPT !.status = s, !.deliveredAt = (s = "DELIVERED")]
                ELSE [NewBooking("u1", 1000, "CASH", drv)
                         EXCEPT !.status = "DELIVERED", !.deliveredAt = TRUE]]
    /\ \E has \in BOOLEAN, funds \in FundSeeds :
          /\ wallet = [u \in Users |->
                         IF u = "u1" /\ has THEN [exists |-> TRUE, balance |-> funds]
                         ELSE [exists |-> FALSE, balance |-> 0]]
          /\ txns = IF has /\ funds > 0
                    THEN Insert(EmptyBag, Txn("u1", "TOP_UP", funds, NULL))
                    ELSE EmptyBag
    /\ coupon = [c \in Coupons |->
                    [isActive |-> TRUE, expired |-> FALSE, usageLimit |-> 1, usedCount |-> 0,
                     discountType |-> "FLAT", discountValue |-> 1000, maxDiscount |-> 0,
                     minOrderValue |-> 0]]
    /\ userCoupon = [k \in Users \X Coupons |-> NoUserCoupon]
    /\ referral = EmptyBag
    /\ order = [b \in Bookings |-> [exists |-> FALSE, rating |-> 0, tipAmount |-> 0]]
    /\ driver = [d \in Drivers |-> [rating |-> 0, totalTrips |-> 0]]
    /\ invoice = [b \in Bookings |-> NoInvoice]
    /\ req = [p \in Procs |-> NoReq]
    /\ budget = MaxRatingRequests
NextRating == \E p \in Procs : SubmitRating(p) \/ Abort(p)
SpecRating == InitRating /\ [][NextRating]_vars

\* invoices of a booking at any of InvoicePriceSeeds, to the sen or with half a
\* sen more, unpaid or discounted by 5.00 and paid from the wallet.  Every seeded
\* store is one the handlers produce (POST /api/bookings, POST /promo/apply,
\* POST /wallet/topup, POST /wallet/pay).
InvoicePriceSeeds == {1000, 10600}
InitInvoice ==
    /\ \E price \in InvoicePriceSeeds, m \in {0, 5}, paid \in BOOLEAN :
          /\ booking = [b \in Bookings |->
                IF b = "b1"
                THEN IF paid
                     THEN [NewBooking("u1", price, "WALLET", "d1")
                              EXCEPT !.mills = m, !.promoCode = "SAVE",
                                     !.discountAmount = 500, !.finalPrice = price - 500,
                                     !.paymentStatus = "COMPLETED"]
                     ELSE [NewBooking("u1", price, "CASH", "d1") EXCEPT !.mills = m]
                ELSE NewBooking("u2", 1000, "CASH", NULL)]
          /\ wallet = [u \in Users |-> [exists |-> paid /\ u = "u1", balance |-> 0]]
          /\ txns = IF paid
                    THEN Insert(Insert(EmptyBag, Txn("u1", "TOP_UP", price - 500, NULL)),
                                Txn("u1", "PAYMENT", -(price - 500), "b1"))
                    ELSE EmptyBag
          /\ coupon = [c \in Coupons |->
                    [isActive |-> TRUE, expired |-> FALSE, usageLimit |-> 1,
                     usedCount |-> IF paid THEN 1 ELSE 0,
                     discountType |-> "FLAT", discountValue |-> 500, maxDiscount |-> 0,
                     minOrderValue |-> 0]]
          /\ userCoupon = [k \in Users \X Coupons |->
                             IF paid /\ k = <<"u1", "SAVE">>
                             THEN [exists |-> TRUE, bookingId |-> "b1", usedAt |-> TRUE]
                             ELSE NoUserCoupon]
    /\ referral = EmptyBag
    /\ order = [b \in Bookings |-> [exists |-> FALSE, rating |-> 0, tipAmount |-> 0]]
    /\ driver = [d \in Drivers |-> [rating |-> 0, totalTrips |-> 0]]
    /\ invoice = [b \in Bookings |-> NoInvoice]
    /\ req = [p \in Procs |-> NoReq]
    /\ budget = MaxInvoiceRequests
NextInvoice == \E p \in Procs : Generate(p) \/ Abort(p)
SpecInvoice == InitInvoice /\ [][NextInvoice]_vars

\* payments of a booking of 10.00, discounted by 5.00 or not, by a requester
\* with no wallet or one topped up with one of PayFundSeeds.  Every seeded store
\* is one the handlers produce (POST /promo/apply, GET /wallet, POST
\* /wallet/topup).
PayFundSeeds == {0, 500, 1000}
InitPay ==
    /\ \E discounted \in BOOLEAN :
          /\ booking = [b \in Bookings |->
                IF b = "b1"
                THEN IF discounted
                     THEN [NewBooking("u1", 1000, "CASH", "d1")
                              EXCEPT !.promoCode = "SAVE", !.discountAmount = 500]
                     ELSE NewBooking("u1", 1000, "CASH", "d1")
                ELSE NewBooking("u2", 1000, "CASH", NULL)]
          /\ coupon = [c \in Coupons |->
                    [isActive |-> TRUE, expired |-> FALSE, usageLimit |-> 1,
                     usedCount |-> IF discounted THEN 1 ELSE 0,
                     discountType |-> "FLAT", discountValue |-> 500, maxDiscount |-> 0,
                     minOrderValue |-> 0]]
          /\ userCoupon = [k \in Users \X Coupons |->
                             IF discounted /\ k = <<"u1", "SAVE">>
                             THEN [exists |-> TRUE, bookingId |-> "b1", usedAt |-> TRUE]
                             ELSE NoUserCoupon]
    /\ \E has \in BOOLEAN, funds \in PayFundSeeds :
          /\ wallet = [u \in Users |->
                         IF u = "u1" /\ has THEN [exists |-> TRUE, balance |-> funds]
                         ELSE [exists |-> FALSE, balance |-> 0]]
          /\ txns = IF has /\ funds > 0
                    THEN Insert(EmptyBag, Txn("u1", "TOP_UP", funds, NULL))
                    ELSE EmptyBag
    /\ referral = EmptyBag
    /\ order = [b \in Bookings |-> [exists |-> FALSE, rating |-> 0, tipAmount |-> 0]]
    /\ driver = [d \in Drivers |-> [rating |-> 0, totalTrips |-> 0]]
    /\ invoice = [b \in Bookings |-> NoInvoice]
    /\ req = [p \in Procs |-> NoReq]
    /\ budget = MaxPayRequests
NextPay == \E p \in Procs : Pay(p) \/ Abort(p)
SpecPay == InitPay /\ [][NextPay]_vars

\* the ETA of a booking while its status and its eta are set
InitEta == InitStore /\ budget = MaxEtaRequests
NextEta == \E p \in Procs : GetEta(p) \/ UpdateStatus(p) \/ Abort(p)
SpecEta == InitEta /\ [][NextEta]_vars

\* the generic status update of a booking found in any status, paid from the
\* wallet or not
InitUpdate == SeededStatus /\ budget = MaxUpdateRequests
NextUpdate == \E p \in Procs : UpdateStatus(p) \/ Abort(p)
SpecUpdate == InitUpdate /\ [][NextUpdate]_vars

\* every operation addressed at a booking, on a booking found in any status,
\* paid from the wallet or not, whose requester has 10.00 in the wallet
InitAccess == Seeded(1000) /\ budget = MaxAccessRequests
NextAccess ==
    \E p \in Procs :
        \/ GetBooking(p) \/ VerifyDelivery(p) \/ UpdateStatus(p) \/ GetEta(p) \/ Cancel(p)
        \/ SubmitRating(p) \/ Pay(p) \/ Apply(p) \/ Generate(p)
        \/ Abort(p)
SpecAccess == InitAccess /\ [][NextAccess]_vars

\* deliveries and ratings of a booking that is in transit or delivered, not yet
\* rated or rated 3 while it was delivered; its requester has 5.00 in the
\* wallet.  Every seeded store is one the handlers produce (PUT /:id/status,
\* POST /api/ratings/:bookingId, POST /wallet/topup).
InitOrder ==
    /\ \E s \in {"IN_TRANSIT", "DELIVERED"}, rated \in BOOLEAN :
          /\ booking = [b \in Bookings |->
                IF b = "b1"
                THEN [NewBooking("u1", 1000, "CASH", "d1")
                         EXCEPT !.status = s, !.deliveredAt = (rated \/ s = "DELIVERED")]
                ELSE NewBooking("u2", 1000, "CASH", NULL)]
          /\ order = [b \in Bookings |->
                IF b = "b1" /\ rated THEN [exists |-> TRUE, rating |-> 3, tipAmount |-> 0]
                ELSE [exists |-> FALSE, rating |-> 0, tipAmount |-> 0]]
          /\ driver = [d \in Drivers |->
                         [rating |-> IF rated THEN 30 ELSE 0, totalTrips |-> 0]]
    /\ wallet = [u \in Users |->
                   IF u = "u1" THEN [exists |-> TRUE, balance |-> 500]
                   ELSE [exists |-> FALSE, balance |-> 0]]
    /\ txns = Insert(EmptyBag, Txn("u1", "TOP_UP", 500, NULL))
    /\ coupon = [c \in Coupons |->
                    [isActive |-> TRUE, expired |-> FALSE, usageLimit |-> 1, usedCount |-> 0,
                     discountType |-> "FLAT", discountValue |-> 1000, maxDiscount |-> 0,
                     minOrderValue |-> 0]]
    /\ userCoupon = [k \in Users \X Coupons |-> NoUserCoupon]
    /\ referral = EmptyBag
    /\ invoice = [b \in Bookings |-> NoInvoice]
    /\ req = [p \in Procs |-> NoReq]
    /\ budget = MaxOrderRequests
NextOrder == \E p \in Procs : VerifyDelivery(p) \/ SubmitRating(p) \/ Abort(p)
SpecOrder == InitOrder /\ [][NextOrder]_vars

\* a booking from discount to payment to cancellation
InitRefund == InitStore /\ budget = MaxRefundRequests
NextRefund ==
    \E p \in Procs :
        Apply(p) \/ GetWallet(p) \/ TopUp(p) \/ Pay(p) \/ Cancel(p) \/ Abort(p)
SpecRefund == InitRefund /\ [][NextRefund]_vars

\* ------------------------------------------------------------------ claims
\* request slot p responds in this step to a request of handler op
Completes(p, op) ==
    /\ req'[p].pc = "done" /\ req'[p].op = op
    /\ req'[p] # req[p]

\* request slot p accepts in this step a request of handler op
Arrives(p, op) == budget' # budget /\ req'[p] # req[p] /\ req'[p].op = op

\* C1: at every point in time, also between the store writes of one operation,
\* each wallet's balance equals the sum of the amounts of its WalletTransaction
\* entries.
C1_BalanceEqualsLedger == \A u \in Users : wallet[u].balance = LedgerSum(u)

\* C2: every coupon's usedCount stays within its usageLimit.
C2_UsedCountWithinLimit == \A c \in Coupons : coupon[c].usedCount <= coupon[c].usageLimit

\* C3: when two Apply calls by different users both read a coupon at its last
\* remaining use (usedCount = usageLimit - 1) and both have responded, exactly one
\* succeeded, the other failed with UsageLimitReached, and usedCount equals
\* usageLimit.
C3_LastUseAdmitsOne ==
    \A p, q \in Procs :
        ( /\ p # q
          /\ req[p].pc = "done" /\ req[q].pc = "done"
          /\ req[p].op = "apply" /\ req[q].op = "apply"
          /\ req[p].code = req[q].code /\ req[p].code \in Coupons
          /\ req[p].user # req[q].user
          /\ req[p].result \notin {"NotFound", "InternalError"}
          /\ req[q].result \notin {"NotFound", "InternalError"}
          /\ req[p].seen = coupon[req[p].code].usageLimit - 1
          /\ req[q].seen = coupon[req[q].code].usageLimit - 1 )
        => /\ {req[p].result, req[q].result} = {"ok", "UsageLimitReached"}
           /\ coupon[req[p].code].usedCount = coupon[req[p].code].usageLimit

\* C4: an Apply that arrives after the caller has redeemed the coupon fails and
\* leaves the coupon's usedCount and the booking's discount unchanged.
C4_RedeemedAtMostOnce ==
    [][\A p \in Procs :
          (Completes(p, "apply") /\ req'[p].late)
          => /\ req'[p].result # "ok"
             /\ coupon' = coupon
             /\ booking' = booking]_vars

\* C5: the refund step of a Cancel on a booking read with paymentMethod WALLET and
\* paymentStatus COMPLETED credits the owner's wallet with exactly the amount Pay
\* debited (the finalPrice Pay stored, 0 included), appends one REFUND transaction
\* of that amount and sets paymentStatus to REFUNDED.
C5_RefundIsPaidAmount ==
    [][\A p \in Procs :
          (req[p].pc = "cancel_refund" /\ Completes(p, "cancel") /\ req'[p].result = "ok")
          => LET u == req[p].user
                 b == req[p].bookingId
                 paid == req[p].bk.finalPrice
             IN /\ wallet'[u].balance = wallet[u].balance + paid
                /\ txns' = Insert(txns, Txn(u, "REFUND", paid, b))
                /\ booking'[b].paymentStatus = "REFUNDED"]_vars

\* C6: once a booking is DELIVERED or CANCELLED, no step changes its status.
C6_TerminalIsFinal ==
    [][\A b \in Bookings :
          booking[b].status \in {"DELIVERED", "CANCELLED"}
          => booking'[b].status = booking[b].status]_vars

\* C7: once a VerifyDelivery of a booking has succeeded, a VerifyDelivery of that
\* booking that arrives later (from its owner, with any OTP) fails at once with a
\* state-conflict error and changes nothing.
C7_VerifiedOnce ==
    [][\A p, q \in Procs :
          ( /\ Arrives(p, "verifyDelivery")
            /\ req'[p].code # ""
            /\ req'[p].user = booking[req'[p].bookingId].userId
            /\ req[q].pc = "done" /\ req[q].op = "verifyDelivery" /\ req[q].result = "ok"
            /\ req[q].bookingId = req'[p].bookingId )
          => /\ req'[p].pc = "done"
             /\ req'[p].result \in {"AlreadyDelivered", "AlreadyCancelled"}
             /\ store' = store]_vars


\* REFERRAL_BONUS entries in the ledger of u's wallet
BonusCount(u) == CountRows(txns, {r \in DOMAIN txns : r.walletId = u /\ r.type = "REFERRAL_BONUS"})

\* Referral rows that name u, as referrer or as referee
ReferralCount(u) ==
    CountRows(referral, {r \in DOMAIN referral : r.referrerId = u})
        + CountRows(referral, {r \in DOMAIN referral : r.refereeId = u})

\* every Referral row is COMPLETED with the fixed reward, every bonus entry is the
\* fixed reward in an existing wallet, and each user holds one bonus entry per
\* Referral row naming that user: never a row without both credits, never a
\* credit without the row or without the other credit
ReferralCreditsMatch ==
    /\ \A r \in DOMAIN referral : r.status = "COMPLETED" /\ r.rewardAmount = rewardAmount
    /\ \A r \in DOMAIN txns : r.type = "REFERRAL_BONUS" => r.amount = rewardAmount
    /\ \A u \in Users : BonusCount(u) = ReferralCount(u)
    /\ \A u \in Users : ReferralCount(u) > 0 => wallet[u].exists

\* the step in which an ApplyReferral succeeds adds exactly one Referral row,
\* 5.00 to the referrer's and to the referee's balance, and one REFERRAL_BONUS
\* entry for each; no other step touches the Referral table or adds a bonus entry
ReferralStepExact ==
    /\ \A p \in Procs :
          (Completes(p, "applyReferral") /\ req'[p].result = "ok")
          => LET u == req[p].user
                 r == ReferrerOf(req[p].code)
             IN /\ referral' = Insert(referral,
                                 [referrerId |-> r, refereeId |-> u, referralCode |-> req[p].code,
                                  rewardAmount |-> rewardAmount, status |-> "COMPLETED"])
                /\ wallet'[r].exists /\ wallet'[r].balance = wallet[r].balance + rewardAmount
                /\ wallet'[u].exists /\ wallet'[u].balance = wallet[u].balance + rewardAmount
                /\ txns' = Insert(Insert(txns, Txn(r, "REFERRAL_BONUS", rewardAmount, NULL)),
                                  Txn(u, "REFERRAL_BONUS", rewardAmount, NULL))
    /\ (referral' # referral \/ \E u \in Users : BonusCount(u)' # BonusCount(u))
          => \E p \in Procs : Completes(p, "applyReferral") /\ req'[p].result = "ok"

\* C8: a successful ApplyReferral creates one COMPLETED Referral row and credits
\* the referrer's and the referee's wallet with exactly 5.00 each, each with its
\* own REFERRAL_BONUS entry, in one step; in no reachable state (an abort
\* included) is only one wallet credited or a wallet credited without the row.
C8_ReferralAtomic == []ReferralCreditsMatch /\ [][ReferralStepExact]_vars

\* C8 witness: an ApplyReferral has succeeded and both wallets hold the bonus
C8_Witness ==
    \E p \in Procs :
        /\ req[p].pc = "done" /\ req[p].op = "applyReferral" /\ req[p].result = "ok"
        /\ BonusCount(req[p].user) > 0
        /\ BonusCount(ReferrerOf(req[p].code)) > 0

\* C9: each user is the referee of at most one Referral row, and so receives the
\* referee bonus at most once.
C9_RefereeAtMostOnce ==
    \A u \in Users : CountRows(referral, {r \in DOMAIN referral : r.refereeId = u}) <= 1

\* C10: no wallet balance is ever negative.
C10_BalanceNonNegative == \A u \in Users : wallet[u].balance >= 0


\* the REFUND entries in the ledger that reference booking b
RefundsOf(b) == CountRows(txns, {r \in DOMAIN txns : r.type = "REFUND" /\ r.referenceId = b})

\* C11: the step that turns a booking paid from the wallet (paymentMethod WALLET,
\* paymentStatus COMPLETED) into CANCELLED also credits the refund, appends the
\* REFUND transaction and sets paymentStatus to REFUNDED; so no state has such a
\* booking CANCELLED, still COMPLETED and without a refund.
C11_CancelIsOneUnit ==
    [][\A b \in Bookings :
          ( /\ booking[b].status # "CANCELLED" /\ booking'[b].status = "CANCELLED"
            /\ booking[b].paymentMethod = "WALLET" /\ booking[b].paymentStatus = "COMPLETED" )
          => /\ booking'[b].paymentStatus = "REFUNDED"
             /\ RefundsOf(b)' = RefundsOf(b) + 1
             /\ wallet'[booking[b].userId].balance > wallet[booking[b].userId].balance]_vars

\* C12: the step of a VerifyDelivery that makes the booking DELIVERED also leaves
\* the booking's Order record in place and the assigned driver's trip counter
\* incremented.
C12_DeliveryIsOneUnit ==
    [][\A p \in Procs :
          ( /\ req[p].op = "verifyDelivery" /\ req[p].pc = "verify_update"
            /\ req'[p] # req[p]
            /\ booking'[req[p].bookingId].status = "DELIVERED"
            /\ booking' # booking )
          => LET b == req[p].bookingId
                 d == req[p].bk.driverId
             IN /\ order'[b].exists
                /\ d # NULL => driver'[d].totalTrips = driver[d].totalTrips + 1]_vars


\* the caller's redemption record of a coupon is used
Redeemed(u, cd) == userCoupon[<<u, cd>>].exists /\ userCoupon[<<u, cd>>].usedAt

\* the outcome the coupon rules give a validation of code cd by user u for an
\* amount: the first rule broken, in the order unknown, inactive, expired, at its
\* usage limit, below its minimum order value, already redeemed
ValidateOutcome(cd, u, amount) ==
    IF cd \notin Coupons THEN "CodeNotFound"
    ELSE IF ~coupon[cd].isActive THEN "CodeInactive"
    ELSE IF coupon[cd].expired THEN "CodeExpired"
    ELSE IF coupon[cd].usedCount >= coupon[cd].usageLimit THEN "UsageLimitReached"
    ELSE IF amount < coupon[cd].minOrderValue THEN "BelowMinimumOrder"
    ELSE IF Redeemed(u, cd) THEN "AlreadyRedeemed"
    ELSE "ok"

\* C13: an Apply succeeds only if, in the state in which it redeems, a validation
\* of the same code by the same user for the booking's estimated price succeeds;
\* an Apply that fails changes nothing in the store.
C13_ApplyRevalidates ==
    [][\A p \in Procs :
          Completes(p, "apply")
          => IF req'[p].result = "ok"
             THEN ValidateOutcome(req[p].code, req[p].user, req[p].bk.estimatedPrice) = "ok"
             ELSE store' = store]_vars

\* the promo code and discount stored on a booking
PromoOf(b) == <<booking[b].promoCode, booking[b].discountAmount>>

\* a redemption record implies its coupon was counted and its booking carries
\* the code
RedemptionsComplete ==
    \A u \in Users, c \in Coupons :
        Redeemed(u, c)
        => /\ coupon[c].usedCount >= 1
           /\ booking[userCoupon[<<u, c>>].bookingId].promoCode = c

\* the step of a successful Apply makes all three writes; any step that makes
\* one of them is the step of a successful Apply
ApplyStepWhole ==
    /\ \A p \in Procs :
          (Completes(p, "apply") /\ req'[p].result = "ok")
          => LET u == req[p].user
                 b == req[p].bookingId
                 cd == req[p].code
             IN /\ booking'[b].promoCode = cd /\ booking'[b].discountAmount = req[p].amt
                /\ coupon'[cd].usedCount = coupon[cd].usedCount + 1
                /\ userCoupon'[<<u, cd>>] = [exists |-> TRUE, bookingId |-> b, usedAt |-> TRUE]
    /\ ( \/ \E b \in Bookings : PromoOf(b)' # PromoOf(b)
         \/ coupon' # coupon
         \/ userCoupon' # userCoupon )
          => \E p \in Procs : Completes(p, "apply") /\ req'[p].result = "ok"

\* C14: Apply's three writes (promo code and discount on the booking, usedCount
\* increment, UserCoupon upsert with usedAt) take effect in one step or not at
\* all, also when the call is aborted or runs beside other calls.
C14_ApplyAllOrNothing == []RedemptionsComplete /\ [][ApplyStepWhole]_vars

\* C14 witness: an Apply has succeeded and its three writes are in the store
C14_Witness ==
    \E p \in Procs :
        /\ req[p].pc = "done" /\ req[p].op = "apply" /\ req[p].result = "ok"
        /\ booking[req[p].bookingId].promoCode = req[p].code
        /\ coupon[req[p].code].usedCount >= 1
        /\ Redeemed(req[p].user, req[p].code)

\* C15: a Validate answers with the first coupon rule broken (CodeNotFound,
\* CodeInactive, CodeExpired, UsageLimitReached, BelowMinimumOrder for every
\* orderAmount below minOrderValue, 0 included, AlreadyRedeemed) and returns a
\* discount only when none is broken.
C15_ValidateChecks ==
    [][\A p \in Procs :
          (Completes(p, "validate") /\ req'[p].result # "InternalError")
          => req'[p].result = ValidateOutcome(req'[p].code, req'[p].user, req'[p].amount)]_vars

\* the discount as stated: PERCENTAGE is amount * value / 100, capped at a set
\* maxDiscount, FLAT is the value; rounded half up to the sen.  Computed in
\* hundredths of a sen.
StatedDiscount(c, amount) ==
    IF c.discountType = "PERCENTAGE"
    THEN LET raw == amount * c.discountValue
             capped == IF c.maxDiscount # 0 /\ raw > 100 * c.maxDiscount
                       THEN 100 * c.maxDiscount ELSE raw
         IN (capped + 50) \div 100
    ELSE c.discountValue

BookingOps ==
    {"getBooking", "verifyDelivery", "updateStatus", "getEta", "cancel", "submitRating",
     "pay", "apply", "generate"}

\* request slot p accepts in this step an operation on a booking from a user who
\* is not the booking's requester
ArrivesFromStranger(p) ==
    /\ \E op \in BookingOps : Arrives(p, op)
    /\ req'[p].user # booking[req'[p].bookingId].userId

ArrivesFromOwner(p, op) ==
    Arrives(p, op) /\ req'[p].user = booking[req'[p].bookingId].userId

\* C18: a Cancel by the requester of a booking that is DELIVERED or CANCELLED
\* fails with NotCancellable and changes nothing in the store (status,
\* paymentStatus, wallet balances and transaction log included).
C18_TerminalNotCancellable ==
    [][\A p \in Procs :
          ( /\ ArrivesFromOwner(p, "cancel")
            /\ booking[req'[p].bookingId].status \in {"DELIVERED", "CANCELLED"} )
          => /\ req'[p].pc = "done" /\ req'[p].result = "NotCancellable"
             /\ store' = store]_vars

\* C18 witness: a Cancel of a terminal booking was refused
C18_Witness ==
    \E p \in Procs :
        /\ req[p].pc = "done" /\ req[p].op = "cancel" /\ req[p].result = "NotCancellable"
        /\ booking[req[p].bookingId].status \in {"DELIVERED", "CANCELLED"}

\* C19: a Cancel by the requester of a booking in a non-terminal status is
\* accepted, its booking.update sets the status to CANCELLED, and it ends in
\* success unless a store call throws.
C19_NonTerminalCancels ==
    [][\A p \in Procs :
          /\ ( /\ ArrivesFromOwner(p, "cancel")
               /\ booking[req'[p].bookingId].status \notin {"DELIVERED", "CANCELLED"} )
             => req'[p].pc = "cancel_update"
          /\ ( /\ req[p].op = "cancel" /\ req[p].pc = "cancel_update"
               /\ req'[p] # req[p] /\ req'[p].result # "InternalError" )
             => booking'[req[p].bookingId].status = "CANCELLED"
          /\ ( /\ req[p].op = "cancel" /\ Running(p) /\ Completes(p, "cancel")
               /\ req'[p].result # "InternalError" )
             => req'[p].result = "ok"]_vars

\* C19 witness: a Cancel succeeded and the booking is CANCELLED
C19_Witness ==
    \E p \in Procs :
        /\ req[p].pc = "done" /\ req[p].op = "cancel" /\ req[p].result = "ok"
        /\ booking[req[p].bookingId].status = "CANCELLED"

\* C20: a VerifyDelivery by the requester with an OTP fails with AlreadyDelivered
\* on a DELIVERED booking, with AlreadyCancelled on a CANCELLED one and with
\* InvalidOtp when the booking is neither and the OTP differs from the booking's;
\* each time nothing in the store changes (booking, Order records and the
\* driver's trip counter included).
C20_VerifyRejections ==
    [][\A p \in Procs :
          (ArrivesFromOwner(p, "verifyDelivery") /\ req'[p].code # "")
          => LET bk == booking[req'[p].bookingId]
                 Fails(res) == req'[p].pc = "done" /\ req'[p].result = res /\ store' = store
             IN /\ bk.status = "DELIVERED" => Fails("AlreadyDelivered")
                /\ bk.status = "CANCELLED" => Fails("AlreadyCancelled")
                /\ (bk.status \notin {"DELIVERED", "CANCELLED"} /\ req'[p].code # bk.otp)
                      => Fails("InvalidOtp")]_vars

\* C20 witness: one VerifyDelivery was refused as already delivered and one for
\* its OTP
C20_Witness ==
    \E p, q \in Procs :
        /\ req[p].pc = "done" /\ req[p].op = "verifyDelivery"
        /\ req[p].result = "AlreadyDelivered"
        /\ req[q].pc = "done" /\ req[q].op = "verifyDelivery"
        /\ req[q].result = "InvalidOtp"

\* C21: a SubmitRating with a rating outside 1..5 fails with the validation
\* error, and one by the requester with a rating in 1..5 on a booking that is not
\* DELIVERED fails with NotDelivered; each time nothing in the store changes (no
\* Order created or changed, driver rating and wallets as before).
C21_RatingRejections ==
    [][\A p \in Procs :
          Arrives(p, "submitRating")
          => LET bk == booking[req'[p].bookingId]
                 Fails(res) == req'[p].pc = "done" /\ req'[p].result = res /\ store' = store
             IN /\ req'[p].rating \notin 1..5 => Fails("InvalidRating")
                /\ ( /\ req'[p].rating \in 1..5
                     /\ req'[p].user = bk.userId
                     /\ bk.status # "DELIVERED" )
                      => Fails("NotDelivered")]_vars

\* C21 witness: one rating was refused for its value and one because the booking
\* is not delivered
C21_Witness ==
    \E p, q \in Procs :
        /\ req[p].pc = "done" /\ req[p].op = "submitRating"
        /\ req[p].result = "InvalidRating" /\ req[p].rating = 6
        /\ req[q].pc = "done" /\ req[q].op = "submitRating"
        /\ req[q].result = "NotDelivered" /\ req[q].rating \in 1..5
        /\ booking[req[q].bookingId].status # "DELIVERED"
        /\ ~order[req[q].bookingId].exists

\* C22: when a SubmitRating call ends in success and no other SubmitRating call
\* is under way, the stored rating of the booking's driver is the mean, rounded
\* to 1 decimal, of the current ratings of that driver's rated bookings.
C22_StoredRatingIsMean ==
    [][\A p \in Procs :
          ( /\ Completes(p, "submitRating") /\ req'[p].result = "ok"
            /\ \A q \in Procs \ {p} : ~(Running(q) /\ req[q].op = "submitRating")
            /\ booking[req[p].bookingId].driverId # NULL )
          => LET d == booking[req[p].bookingId].driverId
             IN driver'[d].rating = AverageRating(d)']_vars

\* C23: when a SubmitRating call with a positive tip ends in success, a tip the
\* requester's wallet covers is debited in that step together with one PAYMENT
\* transaction of minus the tip referencing the booking, driver or no driver,
\* and a tip the wallet does not cover leaves wallets and log as they are.
C23_TipDebitedWhenCovered ==
    [][\A p \in Procs :
          ( /\ Completes(p, "submitRating") /\ req'[p].result = "ok"
            /\ req[p].amount > 0 )
          => LET u == req[p].user
                 tipAmount == req[p].amount
             IN IF wallet[u].exists /\ wallet[u].balance >= tipAmount
                THEN /\ wallet' = [wallet EXCEPT ![u].balance = @ - tipAmount]
                     /\ txns' = Insert(txns, Txn(u, "PAYMENT", -tipAmount, req[p].bookingId))
                ELSE wallet' = wallet /\ txns' = txns]_vars

\* C24: a Generate call by the booking's requester that the store does not fail
\* for any other reason ends in success with the booking's one invoice, also
\* when another call created that invoice while this one was under way.
C24_GenerateIdempotent ==
    [][\A p \in Procs :
          ( /\ Completes(p, "generate")
            /\ req'[p].user = booking[req'[p].bookingId].userId
            /\ (req'[p].result = "InternalError" => invoice[req'[p].bookingId].exists) )
          => /\ req'[p].result \in {"ok", "created"}
             /\ invoice'[req'[p].bookingId].exists
             /\ req'[p].amt = invoice'[req'[p].bookingId].total]_vars

\* the price an invoice of booking b is drawn on, in tenths of a sen: finalPrice
\* if it is non-zero, otherwise estimatedPrice
InvoicePrice(b) ==
    (IF booking[b].finalPrice # 0 THEN booking[b].finalPrice ELSE booking[b].estimatedPrice) * 10
        + booking[b].mills

\* amount a, in tenths of a sen, is n / d rounded to 2 decimals: a whole number of
\* sen at most half a sen away from n / d
IsRounded2(a, n, d) ==
    /\ a % 10 = 0
    /\ 2 * (a * d - n) <= 10 * d
    /\ 2 * (n - a * d) <= 10 * d

\* total, subtotal and tax of the invoice of booking b are as the formulas say
InvoiceAsComputed(b) ==
    /\ invoice[b].total = InvoicePrice(b)
    /\ IsRounded2(invoice[b].subtotal, invoice[b].total * 100, 106)
    /\ IsRounded2(invoice[b].tax, invoice[b].total - invoice[b].subtotal, 1)

\* C25 as amended: a generated invoice has total = finalPrice if non-zero,
\* otherwise estimatedPrice; subtotal = total / 1.06 rounded to 2 decimals; tax =
\* total - subtotal rounded to 2 decimals; and subtotal + tax = total whenever
\* the total is a whole number of sen.
C25_InvoiceAmounts ==
    \A b \in Bookings :
        invoice[b].exists
        => /\ InvoiceAsComputed(b)
           /\ invoice[b].total % 10 = 0
                 => invoice[b].subtotal + invoice[b].tax = invoice[b].total

\* C25 witness: an invoice of 106.00 drawn on the estimated price with subtotal
\* 100.00 and tax 6.00, or one drawn on a final price that differs from the
\* estimated price
C25_Witness ==
    /\ invoice["b1"].exists
    /\ \/ /\ booking["b1"].finalPrice = 0
          /\ invoice["b1"].total = 106000 /\ invoice["b1"].subtotal = 100000
          /\ invoice["b1"].tax = 6000
       \/ /\ booking["b1"].finalPrice # 0
          /\ booking["b1"].finalPrice # booking["b1"].estimatedPrice
          /\ invoice["b1"].total = booking["b1"].finalPrice * 10

\* C25: a generated invoice has total = finalPrice if non-zero, otherwise
\* estimatedPrice; subtotal = total / 1.06 rounded to 2 decimals; tax = total -
\* subtotal rounded to 2 decimals; and subtotal + tax = total.
C25_InvoiceSumsToTotal ==
    \A b \in Bookings :
        invoice[b].exists
        => /\ InvoiceAsComputed(b)
           /\ invoice[b].subtotal + invoice[b].tax = invoice[b].total

\* request slot p takes in this step the step of handler op that follows pc,
\* and the store call of the step does not throw
Steps(p, op, pc) ==
    /\ req[p].op = op /\ req[p].pc = pc
    /\ req'[p] # req[p] /\ req'[p].result # "InternalError"

\* C26: a Pay by the booking's requester works on amount = estimatedPrice -
\* discountAmount as it reads them; when the wallet it reads is missing or holds
\* less it fails with InsufficientFunds and changes nothing; otherwise its one
\* write debits the wallet by the amount, appends one PAYMENT transaction of
\* minus the amount referencing the booking and sets paymentMethod WALLET,
\* paymentStatus COMPLETED and finalPrice = amount, in a single step, and the
\* call ends in success.
C26_PayContract ==
    [][\A p \in Procs :
          LET u == req[p].user
              b == req[p].bookingId
              amount == req[p].amt
          IN /\ ArrivesFromOwner(p, "pay")
                => /\ req'[p].pc = "pay_wallet"
                   /\ req'[p].amt = booking[req'[p].bookingId].estimatedPrice
                                       - booking[req'[p].bookingId].discountAmount
                   /\ store' = store
             /\ Steps(p, "pay", "pay_wallet")
                => /\ store' = store
                   /\ IF ~wallet[u].exists \/ wallet[u].balance < amount
                      THEN req'[p].pc = "done" /\ req'[p].result = "InsufficientFunds"
                      ELSE req'[p].pc = "pay_txn"
             /\ Steps(p, "pay", "pay_txn")
                => /\ wallet' = [wallet EXCEPT ![u].balance = @ - amount]
                   /\ txns' = Insert(txns, Txn(u, "PAYMENT", -amount, b))
                   /\ booking' = [booking EXCEPT ![b].paymentMethod = "WALLET",
                                                 ![b].paymentStatus = "COMPLETED",
                                                 ![b].finalPrice = amount]
                   /\ UNCHANGED <<coupon, userCoupon, referral, order, driver, invoice>>
                   /\ req'[p].pc = "pay_read"
             /\ Steps(p, "pay", "pay_read")
                => store' = store /\ req'[p].pc = "done" /\ req'[p].result = "ok"]_vars

\* C26 witness: one Pay succeeded on a discounted booking, which is paid from
\* the wallet at estimatedPrice - discountAmount, and one was refused for the
\* balance
C26_Witness ==
    \E p, q \in Procs, b \in Bookings :
        /\ req[p].pc = "done" /\ req[p].op = "pay" /\ req[p].result = "ok"
        /\ req[p].bookingId = b
        /\ booking[b].paymentMethod = "WALLET" /\ booking[b].paymentStatus = "COMPLETED"
        /\ booking[b].discountAmount > 0
        /\ booking[b].finalPrice = booking[b].estimatedPrice - booking[b].discountAmount
        /\ CountRows(txns, {Txn(req[p].user, "PAYMENT", -booking[b].finalPrice, b)}) = 1
        /\ req[q].pc = "done" /\ req[q].op = "pay" /\ req[q].result = "InsufficientFunds"

\* C27: a GetEta by the booking's requester changes nothing in the store and
\* returns the stored eta, or 10 when none is stored, for DRIVER_ASSIGNED; 0 for
\* DRIVER_ARRIVED, DELIVERED and CANCELLED; and the stored eta, else (none or 0)
\* the stored duration, else 0, for the other statuses.
C27_EtaProjection ==
    [][\A p \in Procs :
          ArrivesFromOwner(p, "getEta")
          => LET bk == booking[req'[p].bookingId]
             IN /\ store' = store
                /\ req'[p].pc = "done" /\ req'[p].result = "ok"
                /\ req'[p].amt =
                      IF bk.status = "DRIVER_ASSIGNED"
                      THEN IF bk.eta # NoEta THEN bk.eta ELSE 10
                      ELSE IF bk.status \in {"DRIVER_ARRIVED", "DELIVERED", "CANCELLED"}
                      THEN 0
                      ELSE IF bk.eta \notin {NoEta, 0} THEN bk.eta
                      ELSE IF bk.duration # 0 THEN bk.duration
                      ELSE 0]_vars

\* the PAYMENT transactions that charged booking b to its requester's wallet
PaymentsOf(b) ==
    {t \in DOMAIN txns : t.type = "PAYMENT" /\ t.referenceId = b
                            /\ t.walletId = booking[b].userId}

\* C28: a booking whose paymentStatus is REFUNDED and that was paid from the
\* wallet has a REFUND transaction referencing it that credits the requester's
\* wallet with the amount paid.
C28_RefundedMeansRefund ==
    \A b \in Bookings :
        ( /\ booking[b].paymentStatus = "REFUNDED"
          /\ booking[b].paymentMethod = "WALLET"
          /\ PaymentsOf(b) # {} )
        => CountRows(txns, {Txn(booking[b].userId, "REFUND", booking[b].finalPrice, b)}) >= 1

\* the place of a status in the chain PENDING, SEARCHING_DRIVER, DRIVER_ASSIGNED,
\* DRIVER_ARRIVED, PICKUP_DONE, IN_TRANSIT, DELIVERED; CANCELLED is off the chain
ChainPlace(s) ==
    CASE s = "PENDING" -> 1
      [] s = "SEARCHING_DRIVER" -> 2
      [] s = "DRIVER_ASSIGNED" -> 3
      [] s = "DRIVER_ARRIVED" -> 4
      [] s = "PICKUP_DONE" -> 5
      [] s = "IN_TRANSIT" -> 6
      [] s = "DELIVERED" -> 7
      [] OTHER -> 0

\* C29: every change of a booking's status moves it to a status later in the
\* chain or to CANCELLED; the status never moves backward along the chain.
C29_StatusMovesForward ==
    [][\A b \in Bookings :
          booking'[b].status # booking[b].status
          => \/ booking'[b].status = "CANCELLED"
             \/ /\ booking[b].status # "CANCELLED"
                /\ ChainPlace(booking'[b].status) > ChainPlace(booking[b].status)]_vars

\* C30: an UpdateStatus with a status outside the eight
\* recognized ones is rejected and changes nothing, and only a recognized status
\* is accepted; its write sets the booking's status, stamps deliveredAt when the
\* new status is DELIVERED and sets paymentStatus to REFUNDED when it is
\* CANCELLED, leaves the other bookings alone and ends in success; no step of
\* UpdateStatus changes a wallet, the transaction log, an Order or a driver.
C30_UpdateStatusFrame ==
    [][\A p \in Procs :
          /\ Arrives(p, "updateStatus")
             => /\ store' = store
                /\ req'[p].pc # "done" => req'[p].status \in BookingStatus
                /\ req'[p].status \notin BookingStatus \cup {NULL}
                      => req'[p].pc = "done" /\ req'[p].result = "InvalidStatus"
          /\ Steps(p, "updateStatus", "status_update")
             => LET b == req[p].bookingId
                    s == req[p].status
                IN /\ booking'[b].status = s
                   /\ s = "DELIVERED" => booking'[b].deliveredAt
                   /\ s = "CANCELLED" => booking'[b].paymentStatus = "REFUNDED"
                   /\ \A c \in Bookings \ {b} : booking'[c] = booking[c]
                   /\ req'[p].pc = "done" /\ req'[p].result = "ok"
          /\ (req[p].op = "updateStatus" /\ Running(p) /\ req'[p] # req[p])
             => UNCHANGED <<wallet, txns, order, driver>>]_vars

\* C30 witness: an UpdateStatus moved a booking paid from the wallet to DELIVERED
\* and stamped it, and one with an unrecognized status was rejected
C30_Witness ==
    \E p, q \in Procs :
        /\ req[p].pc = "done" /\ req[p].op = "updateStatus" /\ req[p].result = "ok"
        /\ booking[req[p].bookingId].status = "DELIVERED"
        /\ booking[req[p].bookingId].deliveredAt
        /\ PaymentsOf(req[p].bookingId) # {}
        /\ req[q].pc = "done" /\ req[q].op = "updateStatus"
        /\ req[q].result = "InvalidStatus" /\ req[q].status = "BOGUS"

\* C31: the write of a VerifyDelivery sets paymentStatus to COMPLETED when the
\* booking's paymentMethod is CASH and leaves it exactly as it was for every
\* other payment method, and no step of VerifyDelivery changes a wallet or the
\* transaction log.
C31_PaymentStatusOnDelivery ==
    [][\A p \in Procs :
          /\ Steps(p, "verifyDelivery", "verify_update")
             => LET b == req[p].bookingId
                IN booking'[b].paymentStatus =
                      IF booking[b].paymentMethod = "CASH" THEN "COMPLETED"
                      ELSE booking[b].paymentStatus
          /\ (Arrives(p, "verifyDelivery") \/ (req[p].op = "verifyDelivery" /\ req'[p] # req[p]))
             => UNCHANGED <<wallet, txns>>]_vars

\* C32: an Order exists only for a booking that has at some point been
\* DELIVERED (there is one Order row per booking at most), and the Order upsert
\* of VerifyDelivery creates the row when there is none and otherwise leaves
\* the stored rating and tip as they are.
C32_OrderOfDelivered ==
    /\ [](\A b \in Bookings : order[b].exists => booking[b].deliveredAt)
    /\ [][\A p \in Procs :
            Steps(p, "verifyDelivery", "verify_order")
            => LET b == req[p].bookingId
               IN /\ order'[b].exists
                  /\ order[b].exists => order'[b] = order[b]
                  /\ \A c \in Bookings \ {b} : order'[c] = order[c]]_vars

\* C32 witness: the only request so far is a VerifyDelivery whose upsert has
\* run on a booking that was rated before, and the rating is still there
C32_Witness ==
    \E p \in Procs :
        /\ budget = MaxOrderRequests - 1
        /\ req[p].op = "verifyDelivery" /\ req[p].pc = "verify_driver"
        /\ order[req[p].bookingId].exists /\ order[req[p].bookingId].rating = 3

\* C33: a booking is charged at most once: at most one PAYMENT transaction
\* references it, and the write of a Pay on a booking whose paymentStatus is
\* already COMPLETED does not debit the wallet.
C33_ChargedAtMostOnce ==
    /\ [](\A b \in Bookings : CountRows(txns, PaymentsOf(b)) <= 1)
    /\ [][\A p \in Procs :
            ( /\ Steps(p, "pay", "pay_txn")
              /\ booking[req[p].bookingId].paymentStatus = "COMPLETED" )
            => wallet' = wallet]_vars

\* the total refunded for booking b, and the total debited for it, in the log
RefundedFor(b) ==
    SumOver({t \in DOMAIN txns : t.type = "REFUND" /\ t.referenceId = b}, txns)
DebitedFor(b) == 0 - SumOver(PaymentsOf(b), txns)

\* C34: for every booking, the total of the REFUND transactions referencing it
\* never exceeds the total debited for it by Pay, and at most one REFUND
\* transaction references it.
C34_RefundsWithinDebits ==
    \A b \in Bookings : RefundedFor(b) <= DebitedFor(b) /\ RefundsOf(b) <= 1

\* C35: in every reachable state each coupon's usedCount equals the number of
\* UserCoupon records for it with usedAt set, and equals the number of bookings
\* carrying its code as promo code.
C35_UsedCountMatchesRedemptions ==
    \A c \in Coupons :
        /\ coupon[c].usedCount = Cardinality({u \in Users : Redeemed(u, c)})
        /\ coupon[c].usedCount = Cardinality({b \in Bookings : booking[b].promoCode = c})

\* a coupon applied and then paid for: booking b1 of u1 has any of
\* DiscountPriceSeeds as estimated price (the client's figure, stored as sent),
\* the coupon is FLAT 10.00 or 10 % capped at 5.00, and u1 has topped up 10.00
DiscountPriceSeeds == {500, 1005, 10000}
InitDiscount ==
    /\ \E price \in DiscountPriceSeeds :
          booking = [b \in Bookings |->
                       IF b = "b1" THEN NewBooking("u1", price, "CASH", "d1")
                       ELSE NewBooking("u2", price, "CASH", NULL)]
    /\ \E flat \in BOOLEAN :
          coupon = [c \in Coupons |->
                      [isActive |-> TRUE, expired |-> FALSE, usageLimit |-> 1, usedCount |-> 0,
                       discountType |-> IF flat THEN "FLAT" ELSE "PERCENTAGE",
                       discountValue |-> IF flat THEN 1000 ELSE 10,
                       maxDiscount |-> IF flat THEN 0 ELSE 500,
                       minOrderValue |-> 0]]
    /\ wallet = [u \in Users |->
                   IF u = "u1" THEN [exists |-> TRUE, balance |-> 1000]
                   ELSE [exists |-> FALSE, balance |-> 0]]
    /\ txns = SetToBag({Txn("u1", "TOP_UP", 1000, NULL)})
    /\ userCoupon = [k \in Users \X Coupons |-> NoUserCoupon]
    /\ referral = EmptyBag
    /\ order = [b \in Bookings |-> [exists |-> FALSE, rating |-> 0, tipAmount |-> 0]]
    /\ driver = [d \in Drivers |-> [rating |-> 0, totalTrips |-> 0]]
    /\ invoice = [b \in Bookings |-> NoInvoice]
    /\ req = [p \in Procs |-> NoReq]
    /\ budget = MaxDiscountRequests
NextDiscount == \E p \in Procs : Apply(p) \/ Pay(p) \/ Abort(p)
SpecDiscount == InitDiscount /\ [][NextDiscount]_vars

\* C36: a successful Apply leaves the booking's discountAmount between 0 and
\* its estimatedPrice, and the payment a Pay makes never raises the wallet's
\* balance.
C36_DiscountWithinPrice ==
    [][\A p \in Procs :
          /\ (Completes(p, "apply") /\ req'[p].result = "ok")
             => LET bk == booking'[req[p].bookingId]
                IN 0 <= bk.discountAmount /\ bk.discountAmount <= bk.estimatedPrice
          /\ Steps(p, "pay", "pay_txn")
             => wallet'[req[p].user].balance <= wallet[req[p].user].balance]_vars

\* the bookings of driver d that have reached DELIVERED
DeliveredOf(d) == {b \in Bookings : booking[b].driverId = d /\ booking[b].deliveredAt}

\* C37: a driver's totalTrips never exceeds the number of distinct bookings of
\* that driver that have reached DELIVERED, under any interleaving of
\* VerifyDelivery and UpdateStatus calls.
C37_OneTripPerBooking ==
    \A d \in Drivers : driver[d].totalTrips <= Cardinality(DeliveredOf(d))

\* C38: when VerifyDelivery and Cancel meet on one wallet-paid booking, no state
\* with both calls finished has the booking's payment refunded and the delivery
\* applied too (status DELIVERED, Order created, the driver's trip counted).
C38_DeliveredOrRefunded ==
    \A b \in Bookings :
        (\A p \in Procs : ~Running(p))
        => ~ ( /\ RefundsOf(b) >= 1
               /\ booking[b].status = "DELIVERED"
               /\ order[b].exists
               /\ booking[b].driverId # NULL
               /\ driver[booking[b].driverId].totalTrips >= 1 )

\* C39: once the SubmitRating calls on a booking have finished, the tipAmount
\* stored on its Order equals the total debited from the requester's wallet by
\* the PAYMENT tip transactions referencing the booking.
C39_TipStoredIsTipDebited ==
    (\A p \in Procs : ~Running(p))
    => \A b \in Bookings : order[b].exists => order[b].tipAmount = DebitedFor(b)


====
